---- MODULE Spec2Model ----
(***************************************************************************)
(* Network-metadata normalisation (NetworkDetailsBuilder and its OpenStack  *)
(* HTTP subclass), the NetworkDetails container and NetworkConfigPlugin of  *)
(* cloudbase-init, as state machines.                                       *)
(*                                                                          *)
(* Python values are records [t |-> <type name>, v |-> <payload>], so that  *)
(* Python's == between values of different types is FALSE (PyEq) instead of *)
(* an evaluation error.  A dict is a function from its keys to values.      *)
(***************************************************************************)
EXTENDS Integers, Sequences, FiniteSets, TLC

VARIABLES
    \* ---- field-resolver harness (one _get_fields call on one raw record)
    fieldset,          \* which field table the record is resolved against
    raw_record,          \* the raw record handed to _get_fields
    network_adapters,  \* NetworkDetailsBuilder._network_adapters: <<name, mac>> pairs
    resolved,          \* what _get_fields returned, once called
    \* ---- builder (one _NetworkDetailsBuilder instance)
    network_data,      \* _NetworkDetailsBuilder._network_data
    links_buf,         \* NetworkDetailsBuilder._links
    networks_buf,      \* NetworkDetailsBuilder._networks
    invalid_links,     \* _NetworkDetailsBuilder._invalid_links
    py,                \* major version of the interpreter running the code (2 or 3)
    outcome,           \* outcome of the last get_network_details() call
    returned_details,  \* the NetworkDetails the calls returned so far, in order
    ncalls,            \* number of get_network_details() calls made
    ndigest,           \* number of _digest() invocations made
    \* ---- plugin (one NetworkConfigPlugin.execute call)
    service_details,   \* what service.get_network_details() gives the plugin
    os_behaviour,      \* what the OS primitive does for each network id
    exec_outcome,      \* outcome of execute ("pending" before the call)
    os_calls           \* the OS primitive invocations execute made, in order

vars == <<fieldset, raw_record, network_adapters, resolved,
          network_data, links_buf, networks_buf, invalid_links, py, outcome,
          returned_details, ncalls, ndigest,
          service_details, os_behaviour, exec_outcome, os_calls>>

fieldVars == <<fieldset, raw_record, resolved>>
builderVars == <<network_data, links_buf, networks_buf, invalid_links, py,
                 outcome, returned_details, ncalls, ndigest>>
pluginVars == <<service_details, os_behaviour, exec_outcome, os_calls>>

----------------------------------------------------------------------------
(* Python values *)

S(s) == [t |-> "str", v |-> s]
I(n) == [t |-> "int", v |-> ToString(n)]
NoneV == [t |-> "none", v |-> "None"]
List(seq) == [t |-> "list", v |-> seq]
EmptyList == List(<<>>)
Tuple2(a, b) == [t |-> "tuple", v |-> <<a, b>>]

\* The namedtuples: v is the record of the tuple's fields
LinkTuple(fields) == [t |-> "Link", v |-> fields]
NetworkTuple(fields) == [t |-> "Network", v |-> fields]


\* bool(x): None, an empty list, an empty string and 0 are false; an
\* instance of a class with neither __bool__ nor __len__ is true
PyTruthy(x) ==
    CASE x.t = "none" -> FALSE
      [] x.t = "list" -> x.v # <<>>
      [] x.t = "str" -> x.v # ""
      [] x.t = "int" -> x.v # "0"
      [] OTHER -> TRUE

\* Python's ==: values of different types are never equal.
PyEq(a, b) == a.t = b.t /\ a.v = b.v

EmptyDict == [k \in {} |-> NoneV]

\* d[k] = v on a dict
DictSet(d, k, v) == [x \in DOMAIN d \cup {k} |-> IF x = k THEN v ELSE d[x]]


----------------------------------------------------------------------------
(* Constants of basenetworkservice.py *)

IPV4 == 4
IPV6 == 6

PHY == "phy"
BOND == "bond"
VIF == "vif"

ASSIGNED_TO == "assigned_to"
BOND_LINKS == "bond_links"
BOND_MODE == "bond_mode"
BROADCAST == "broadcast"
DNS == "dns_nameservers"
GATEWAY == "gateway"
ID == "id"
IP_ADDRESS == "ip_address"
NAME == "name"
MAC_ADDRESS == "mac_address"
MTU == "mtu"
NETMASK == "netmask"
TYPE == "type"
VERSION == "version"
VLAN_ID == "vlan_id"
VLAN_LINK == "vlan_link"

\* httpservice.py, _NetworkDetailsBuilder class attributes
HTTP_ASSIGNED_TO == "link"
HTTP_MAC_ADDRESS == "ethernet_mac_address"
HTTP_NAME == "id"
HTTP_VERSION == "type"
HTTP_LINKS == "links"
HTTP_NETWORKS == "networks"
HTTP_IPV4 == "ipv4"


----------------------------------------------------------------------------
(* _Field and the field tables *)

\* default: [callable |-> TRUE] stands for lambda: str(uuid.uuid1()),
\* [callable |-> FALSE, value |-> x] for a plain value.
ConstDefault(x) == [callable |-> FALSE, value |-> x]
UuidDefault == [callable |-> TRUE, value |-> NoneV]

\* _Field.__new__(cls, name, alias=None, default=None, required=False,
\*                on_error=None).  alias is a Python value: None, a string or a
\* list of strings.
Field(name, alias, default, required, on_error) ==
    [name |-> name, alias |-> alias, default |-> default,
     required |-> required, on_error |-> on_error]

NoHook == "None"
MacHook == "_on_mac_not_found"

\* self._link of NetworkDetailsBuilder.__init__, in insertion order
LinkFieldsBase ==
    << Field(ID, NoneV, UuidDefault, FALSE, NoHook),
       Field(NAME, NoneV, ConstDefault(NoneV), TRUE, NoHook),
       Field(MAC_ADDRESS, NoneV, ConstDefault(NoneV), TRUE, MacHook),
       Field(TYPE, NoneV, ConstDefault(S(PHY)), FALSE, NoHook),
       Field(MTU, NoneV, ConstDefault(NoneV), FALSE, NoHook),
       Field(BOND_LINKS, NoneV, ConstDefault(NoneV), FALSE, NoHook),
       Field(BOND_MODE, NoneV, ConstDefault(NoneV), FALSE, NoHook),
       Field(VLAN_ID, NoneV, ConstDefault(NoneV), FALSE, NoHook),
       Field(VLAN_LINK, NoneV, ConstDefault(NoneV), FALSE, NoHook) >>

\* self._network of NetworkDetailsBuilder.__init__, in insertion order
NetworkFieldsBase ==
    << Field(ID, NoneV, UuidDefault, FALSE, NoHook),
       Field(IP_ADDRESS, NoneV, ConstDefault(NoneV), TRUE, NoHook),
       Field(VERSION, NoneV, ConstDefault(I(IPV4)), FALSE, NoHook),
       Field(NETMASK, NoneV, ConstDefault(NoneV), TRUE, NoHook),
       Field(GATEWAY, NoneV, ConstDefault(NoneV), TRUE, NoHook),
       Field(BROADCAST, NoneV, ConstDefault(NoneV), FALSE, NoHook),
       Field(DNS, NoneV, ConstDefault(EmptyList), FALSE, NoHook),
       Field(ASSIGNED_TO, NoneV, ConstDefault(NoneV), FALSE, NoHook) >>

\* dict.update(): an existing key keeps its position, its value is replaced
FieldsUpdate(fields, new) ==
    [i \in 1..Len(fields) |->
        IF \E j \in 1..Len(new) : new[j].name = fields[i].name
        THEN new[CHOOSE j \in 1..Len(new) : new[j].name = fields[i].name]
        ELSE fields[i]]

\* self._link after _NetworkDetailsBuilder.__init__
LinkFieldsHttp ==
    FieldsUpdate(LinkFieldsBase,
        << Field(NAME, S(HTTP_NAME), ConstDefault(NoneV), TRUE, NoHook),
           Field(MAC_ADDRESS, S(HTTP_MAC_ADDRESS), ConstDefault(NoneV), TRUE,
                 MacHook) >>)

\* self._network after _NetworkDetailsBuilder.__init__
NetworkFieldsHttp ==
    FieldsUpdate(NetworkFieldsBase,
        << Field(VERSION, S(HTTP_VERSION), ConstDefault(I(IPV4)), TRUE, NoHook),
           Field(ASSIGNED_TO, S(HTTP_ASSIGNED_TO), ConstDefault(NoneV), TRUE,
                 NoHook) >>)

\* A self._link whose MAC field carries a list of aliases, as _Field allows
ALT_MAC_ADDRESS == "mac"
LinkFieldsListed ==
    FieldsUpdate(LinkFieldsBase,
        << Field(MAC_ADDRESS, List(<<HTTP_MAC_ADDRESS, ALT_MAC_ADDRESS>>),
                 ConstDefault(NoneV), TRUE, MacHook) >>)

FieldByName(fields, name) ==
    fields[CHOOSE i \in 1..Len(fields) : fields[i].name = name]

----------------------------------------------------------------------------
(* Field resolution: _get_field, _on_mac_not_found, _get_fields *)

\* The alias list with the aliases searched before the field's own name
AliasesBeforeName(field) ==
    (IF field.alias.t = "str" THEN <<field.alias.v>>
     ELSE IF field.alias.t \in {"list", "tuple"} THEN field.alias.v
     ELSE <<>>) \o <<field.name>>

\* aliases = [field.name]; a string alias is appended, a list or tuple
\* alias extends it, anything else (None) adds nothing.
Aliases(field) ==
    <<field.name>> \o
        (IF field.alias.t = "str" THEN <<field.alias.v>>
         ELSE IF field.alias.t \in {"list", "tuple"} THEN field.alias.v
         ELSE <<>>)

\* _get_field with the required flag ignored: a missing required field gets
\* its default like an optional one
GetFieldIgnoresRequired(field, raw_data, fresh) ==
    LET aliases == Aliases(field)
        present == {i \in 1..Len(aliases) : aliases[i] \in DOMAIN raw_data}
    IN  IF present # {}
        THEN LET first == CHOOSE i \in present : \A j \in present : i <= j
             IN  [raised |-> FALSE,
                  ret |-> Tuple2(field.name, raw_data[aliases[first]])]
        ELSE [raised |-> FALSE,
              ret |-> Tuple2(field.name,
                             IF field.default.callable THEN fresh
                             ELSE field.default.value)]

\* _get_field(field, raw_data).  fresh is the value str(uuid.uuid1()) would
\* produce at this call.  raised = TRUE stands for NetworkDetailsError; ret
\* is the returned tuple (field.name, value).
_get_field(field, raw_data, fresh) ==
    LET aliases == Aliases(field)
        present == {i \in 1..Len(aliases) : aliases[i] \in DOMAIN raw_data}
    IN  IF present # {}
        THEN LET first == CHOOSE i \in present : \A j \in present : i <= j
             IN  [raised |-> FALSE,
                  ret |-> Tuple2(field.name, raw_data[aliases[first]])]
        ELSE IF ~field.required
        THEN [raised |-> FALSE,
              ret |-> Tuple2(field.name,
                             IF field.default.callable THEN fresh
                             ELSE field.default.value)]
        ELSE [raised |-> TRUE, ret |-> NoneV]

\* The first adapter pair whose name == name, or 0
RECURSIVE FindAdapter(_, _, _)
FindAdapter(adapters, i, name) ==
    IF i > Len(adapters) THEN 0
    ELSE IF PyEq(S(adapters[i][1]), name) THEN i
    ELSE FindAdapter(adapters, i + 1, name)

\* The adapter loop of _on_mac_not_found, given the index of the first
\* adapter whose name == name (0 if none)
MacFromAdapter(adapters, output, hit) ==
    IF hit # 0
    THEN [ret |-> TRUE,
          output |-> DictSet(output, MAC_ADDRESS, S(adapters[hit][2]))]
    ELSE [ret |-> FALSE, output |-> output]

\* _on_mac_not_found after name = self._get_field(self._link[NAME],
\* raw_data), given what that call did (r).  name is what _get_field
\* returned, the tuple (field.name, value), and is compared as such with
\* each adapter name.
MacNotFoundWithName(adapters, output, r) ==
    IF r.raised THEN [ret |-> FALSE, output |-> output]
    ELSE MacFromAdapter(adapters, output, FindAdapter(adapters, 1, r.ret))

\* _on_mac_not_found(raw_data, output): link_fields is self._link
_on_mac_not_found(link_fields, adapters, raw_data, output, fresh) ==
    MacNotFoundWithName(adapters, output,
        _get_field(FieldByName(link_fields, NAME), raw_data, fresh))

\* field.on_error(raw_data, data) for a callable on_error
RunHook(field, link_fields, adapters, raw_data, data, fresh) ==
    _on_mac_not_found(link_fields, adapters, raw_data, data, fresh)

\* What _get_fields returns: None, or the dict data
ReturnNone == [none |-> TRUE, data |-> EmptyDict]
ReturnData(data) == [none |-> FALSE, data |-> data]

\* Python truth value of what _get_fields returned
Truthy(ret) == ~ret.none /\ DOMAIN ret.data # {}

\* The loop of _get_fields from field i on, with data built so far.
\* GetFieldsTry is the try block, given what _get_field did (r);
\* GetFieldsExcept the handler's "if field.on_error(raw_data, data)", given
\* what the hook did (h).
RECURSIVE GetFieldsFrom(_, _, _, _, _, _, _)
RECURSIVE GetFieldsTry(_, _, _, _, _, _, _, _)
RECURSIVE GetFieldsExcept(_, _, _, _, _, _, _)
GetFieldsFrom(fields, i, data, link_fields, adapters, raw_data, fresh) ==
    IF i > Len(fields) THEN ReturnData(data)
    ELSE GetFieldsTry(fields, i, data, link_fields, adapters, raw_data, fresh,
                      _get_field(fields[i], raw_data, fresh))

GetFieldsTry(fields, i, data, link_fields, adapters, raw_data, fresh, r) ==
    IF ~r.raised
    THEN GetFieldsFrom(fields, i + 1, DictSet(data, r.ret.v[1], r.ret.v[2]),
                       link_fields, adapters, raw_data, fresh)
    ELSE IF fields[i].on_error # NoHook
    THEN GetFieldsExcept(fields, i, link_fields, adapters, raw_data, fresh,
                         RunHook(fields[i], link_fields, adapters, raw_data,
                                 data, fresh))
    ELSE ReturnNone

GetFieldsExcept(fields, i, link_fields, adapters, raw_data, fresh, h) ==
    IF h.ret
    THEN GetFieldsFrom(fields, i + 1, h.output, link_fields, adapters,
                       raw_data, fresh)
    ELSE ReturnNone

\* _get_fields(fields, raw_data) on a builder whose self._link is link_fields
\* and whose self._network_adapters is adapters
_get_fields(fields, link_fields, adapters, raw_data, fresh) ==
    GetFieldsFrom(fields, 1, EmptyDict, link_fields, adapters, raw_data, fresh)

----------------------------------------------------------------------------
(* NetworkDetails *)

\* NetworkDetails.__init__(self, raw_links, raw_networks, raw_references)
NetworkDetails(raw_links, raw_networks, raw_references) ==
    [_assigned_to |-> raw_links,
     _links |-> raw_networks,
     _networks |-> raw_references]

\* dict.get(key): the value, or None
DictGet(d, k) == IF k \in DOMAIN d THEN d[k] ELSE NoneV

get_link(details, link_id) == DictGet(details._links, link_id)
get_links(details) == DOMAIN details._links
get_network(details, network_id) == DictGet(details._networks, network_id)
get_networks(details, link_id) == DictGet(details._assigned_to, link_id)

----------------------------------------------------------------------------
(* The OpenStack HTTP builder: _digest and get_network_details *)

\* The state of one builder while a call runs.  raised is "none" or the
\* name of the exception that left the call; fresh counts the uuids drawn.
BuilderState(links, networks, invalid, raised, fresh) ==
    [links |-> links, networks |-> networks, invalid |-> invalid,
     raised |-> raised, fresh |-> fresh]

Uuid(n) == S("uuid" \o ToString(n))

\* link[VERSION] = IPV4 or IPV6, then self._links[link[ID]] = link
StoreLink(st, link, version) ==
    [st EXCEPT !.links = DictSet(st.links, link[ID].v,
                                 DictSet(link, VERSION, version))]

\* The link loop of _NetworkDetailsBuilder._digest, from raw link i on.
\* DigestLinkBody is the loop body, given what _get_fields returned (link).
RECURSIVE DigestLinkLoop(_, _, _, _)
RECURSIVE DigestLinkBody(_, _, _, _, _)
DigestLinkLoop(raw_links, i, adapters, st) ==
    IF i > Len(raw_links) THEN st
    ELSE DigestLinkBody(raw_links, i, adapters,
                        [st EXCEPT !.fresh = st.fresh + 1],
                        _get_fields(LinkFieldsHttp, LinkFieldsHttp, adapters,
                                    raw_links[i], Uuid(st.fresh)))

DigestLinkBody(raw_links, i, adapters, st, link) ==
    IF Truthy(link)
    THEN IF VERSION \notin DOMAIN link.data    \* link[VERSION]
         THEN [st EXCEPT !.raised = "KeyError"]
         ELSE DigestLinkLoop(raw_links, i + 1, adapters,
                  StoreLink(st, link.data,
                            IF PyEq(link.data[VERSION], S(HTTP_IPV4))
                            THEN I(IPV4) ELSE I(IPV6)))
    ELSE DigestLinkLoop(raw_links, i + 1, adapters, st)

\* self._invalid_links.pop(key, None): _invalid_links is what dict.keys()
\* gave, a list under Python 2 (pop takes at most one argument) and a keys
\* view under Python 3 (no pop attribute)
InvalidLinksPop2(pyMajor) ==
    IF pyMajor = 2 THEN "TypeError" ELSE "AttributeError"

\* _NetworkDetailsBuilder._digest_raw_networks, from raw network i on.
\* The route loop follows the pop, which always raises, and is never run.
RECURSIVE DigestRawNetworkLoop(_, _, _, _, _)
RECURSIVE DigestRawNetworkBody(_, _, _, _, _, _)
DigestRawNetworkLoop(raw_networks, i, adapters, pyMajor, st) ==
    IF i > Len(raw_networks) THEN st
    ELSE DigestRawNetworkBody(raw_networks, i, adapters, pyMajor,
                              [st EXCEPT !.fresh = st.fresh + 1],
                              _get_fields(NetworkFieldsHttp, LinkFieldsHttp,
                                          adapters, raw_networks[i],
                                          Uuid(st.fresh)))

DigestRawNetworkBody(raw_networks, i, adapters, pyMajor, st, network) ==
    IF ~Truthy(network)
    THEN DigestRawNetworkLoop(raw_networks, i + 1, adapters, pyMajor, st)
    ELSE [st EXCEPT !.raised = InvalidLinksPop2(pyMajor)]

\* self._network_data.get(self._NETWORKS) is None when the key is absent,
\* and iterating None raises TypeError
_digest_raw_networks(data, adapters, pyMajor, st) ==
    IF HTTP_NETWORKS \notin DOMAIN data
    THEN [st EXCEPT !.raised = "TypeError"]
    ELSE DigestRawNetworkLoop(data[HTTP_NETWORKS], 1, adapters, pyMajor, st)

\* The pruning loop of _digest: while self._invalid_links: pop one id and
\* pop it from self._links.  A Python 3 keys view has no pop.
PruneInvalidLinks(pyMajor, st) ==
    IF st.invalid = {} THEN st
    ELSE IF pyMajor = 2
    THEN [st EXCEPT !.links = [k \in DOMAIN st.links \ st.invalid |->
                                  st.links[k]],
                    !.invalid = {}]
    ELSE [st EXCEPT !.raised = "AttributeError"]

\* _digest after _digest_raw_networks
DigestAfterNetworks(pyMajor, st) ==
    IF st.raised # "none" THEN st ELSE PruneInvalidLinks(pyMajor, st)

\* _digest after the link loop: self._invalid_links = self._links.keys(),
\* then _digest_raw_networks and the pruning loop
DigestAfterLinks(data, adapters, pyMajor, st) ==
    IF st.raised # "none" THEN st
    ELSE DigestAfterNetworks(pyMajor,
             _digest_raw_networks(data, adapters, pyMajor,
                                  [st EXCEPT !.invalid = DOMAIN st.links]))

\* self._network_data.get(self._LINKS, [])
RawLinksOf(data) ==
    IF HTTP_LINKS \in DOMAIN data THEN data[HTTP_LINKS] ELSE <<>>

\* _NetworkDetailsBuilder._digest
_digest(data, adapters, pyMajor, st) ==
    DigestAfterLinks(data, adapters, pyMajor,
                     DigestLinkLoop(RawLinksOf(data), 1, adapters, st))

\* _digest_links giving the links it returns an id minted on the call
DigestLinksMintsId(st) ==
    IF DOMAIN st.links # {}
    THEN [raised |-> "TypeError", links |-> EmptyDict]
    ELSE [raised |-> "none",
          links |-> DictSet(EmptyDict, Uuid(st.fresh).v, NoneV)]

\* NetworkDetailsBuilder._digest_links: the loop iterates the dict
\* self._links, that is its keys, and indexes each key (a string) with
\* IP_ADDRESS, which raises TypeError before anything is built.
_digest_links(st) ==
    IF DOMAIN st.links # {}
    THEN [raised |-> "TypeError", links |-> EmptyDict]
    ELSE [raised |-> "none", links |-> EmptyDict]

\* NetworkDetailsBuilder._digest_networks: the loop iterates the dict
\* self._networks, that is its keys; _Network(**key) raises TypeError,
\* which is turned into NetworkDetailsError.
_digest_networks(st) ==
    IF DOMAIN st.networks # {}
    THEN [raised |-> "NetworkDetailsError", networks |-> EmptyDict,
          references |-> EmptyDict]
    ELSE [raised |-> "none", networks |-> EmptyDict,
          references |-> EmptyDict]

\* if not self._links or not self._networks
NeedsDigest(st) == DOMAIN st.links = {} \/ DOMAIN st.networks = {}

NoDetails == NetworkDetails(EmptyDict, EmptyDict, EmptyDict)

\* NetworkDetailsBuilder.get_network_details on the HTTP builder: the
\* builder state it leaves, whether it ran _digest, and what it returned
\* (returned = FALSE when an exception left the call)
BuildDetails(digested, st, raised, l, n) ==
    [state |-> [st EXCEPT !.raised = "none"],
     digested |-> digested,
     raised |-> raised,
     returned |-> raised = "none",
     details |-> IF raised = "none"
                 THEN NetworkDetails(l.links, n.networks, n.references)
                 ELSE NoDetails]

\* get_network_details after the digest: _digest_links, _digest_networks
\* and the construction of the NetworkDetails
DetailsAfterDigest(digested, st, l, n) ==
    BuildDetails(digested, st,
                 IF st.raised # "none" THEN st.raised
                 ELSE IF l.raised # "none" THEN l.raised
                 ELSE n.raised,
                 l, n)

AfterDigest(digested, st) ==
    DetailsAfterDigest(digested, st, _digest_links(st), _digest_networks(st))

get_network_details(data, adapters, pyMajor, st) ==
    IF NeedsDigest(st)
    THEN AfterDigest(TRUE, _digest(data, adapters, pyMajor, st))
    ELSE AfterDigest(FALSE, st)

----------------------------------------------------------------------------
(* NetworkConfigPlugin *)

\* What the OS primitive does when invoked for a network: return True,
\* return False, or raise
OsOutcomes == {"True", "False", "NetworkDetailsError", "OSError"}

OsCall(primitive, mac_address, network_id) ==
    [primitive |-> primitive, mac_address |-> mac_address,
     network_id |-> network_id]

\* A step of the plugin: the exception that left it ("none" if none), the
\* value it returned and the OS calls made so far
PluginStep(raised, value, calls) ==
    [raised |-> raised, value |-> value, calls |-> calls]

\* _set_static_network_config_v4: returns what the primitive returns
_set_static_network_config_v4(os, link, network, calls) ==
    LET made == Append(calls, OsCall("set_static_network_config",
                                     link.v.mac_address, network.v.id))
        did == os[network.v.id.v]
    IN  IF did \in {"True", "False"}
        THEN PluginStep("none", did = "True", made)
        ELSE PluginStep(did, FALSE, made)

\* _set_static_network_config_v6 returning what the primitive returns, as
\* the IPv4 method does
SetV6ReturnsPrimitiveResult(os, link, network, calls) ==
    LET made == Append(calls, OsCall("set_static_network_config_v6",
                                     link.v.mac_address, network.v.id))
        did == os[network.v.id.v]
    IN  IF did \in {"True", "False"}
        THEN PluginStep("none", did = "True", made)
        ELSE PluginStep(did, FALSE, made)

\* _set_static_network_config_v6: returns False whatever the primitive
\* returns
_set_static_network_config_v6(os, link, network, calls) ==
    LET made == Append(calls, OsCall("set_static_network_config_v6",
                                     link.v.mac_address, network.v.id))
        did == os[network.v.id.v]
    IN  IF did \in {"True", "False"}
        THEN PluginStep("none", FALSE, made)
        ELSE PluginStep(did, FALSE, made)

\* What iterating a Python value yields: the items of a list, the field
\* values of a namedtuple in declaration order
IterItems(x) ==
    CASE x.t = "list" -> [i \in 1..Len(x.v) |-> S(x.v[i])]
      [] x.t = "Link" ->
            << x.v.id, x.v.name, x.v.type, x.v.mac_address, x.v.mtu,
               x.v.bond_links, x.v.bond_mode, x.v.vlan_id, x.v.vlan_link >>
      [] x.t = "Network" ->
            << x.v.id, x.v.ip_address, x.v.version, x.v.netmask, x.v.gateway,
               x.v.broadcast, x.v.dns_nameservers, x.v.assigned_to >>
      [] OTHER -> <<>>

\* The loop of _configure_phy from item i on
RECURSIVE ConfigurePhyLoop(_, _, _, _, _, _, _)
ConfigurePhyLoop(details, os, link, items, i, response, calls) ==
    IF i > Len(items) THEN PluginStep("none", response, calls)
    ELSE LET network == IF items[i].t = "str"
                        THEN get_network(details, items[i].v)
                        ELSE NoneV
         IN  IF items[i].t = "list"    \* a list is no dict key
             THEN PluginStep("TypeError", response, calls)
             \* network.id, then network.version: attributes of a Network
             ELSE IF network.t # "Network"
             THEN PluginStep("AttributeError", response, calls)
             ELSE LET r == IF PyEq(network.v.version, I(IPV4))
                           THEN _set_static_network_config_v4(os, link,
                                                              network, calls)
                           ELSE _set_static_network_config_v6(os, link,
                                                              network, calls)
                  IN  IF r.raised # "none"
                      THEN PluginStep(r.raised, response, r.calls)
                      ELSE ConfigurePhyLoop(details, os, link, items, i + 1,
                                            response \/ r.value, r.calls)

\* _configure_phy(link)
_configure_phy(details, os, link, calls) ==
    LET networks == get_networks(details, link.v.id.v)
    IN  IF networks.t \notin {"list", "Link", "Network"}
        THEN PluginStep("TypeError", FALSE, calls)   \* None is not iterable
        ELSE ConfigurePhyLoop(details, os, link, IterItems(networks), 1,
                              FALSE, calls)

\* _configure_interface dispatching a link of any type as a physical NIC
ConfigureInterfaceAnyType(details, os, link, calls) ==
    IF link.t # "Link" THEN PluginStep("AttributeError", FALSE, calls)
    ELSE _configure_phy(details, os, link, calls)

\* _configure_interface(link): link.name and link.mac_address are read
\* first, for the log line
_configure_interface(details, os, link, calls) ==
    IF link.t # "Link" THEN PluginStep("AttributeError", FALSE, calls)
    ELSE IF PyEq(link.v.type, S(PHY)) THEN _configure_phy(details, os, link, calls)
    ELSE PluginStep("NetworkDetailsError", FALSE, calls)

\* The outcome of execute: the exception that left it ("none" if it
\* returned), the returned reboot_required, the local configured, the link
\* ids whose loop body was entered, and the OS calls made
ExecOutcome(raised, reboot_required, configured, processed, calls) ==
    [called |-> TRUE, raised |-> raised, reboot_required |-> reboot_required,
     configured |-> configured, processed |-> processed, calls |-> calls]

\* The loop of execute over link_ids (the order get_links() gives)
RECURSIVE ExecuteLoop(_, _, _, _, _, _, _)
ExecuteLoop(details, os, link_ids, i, reboot_required, configured, calls) ==
    IF i > Len(link_ids)
    THEN ExecOutcome("none", reboot_required, configured, link_ids, calls)
    ELSE LET link == get_link(details, link_ids[i])
             r == _configure_interface(details, os, link, calls)
         IN  IF r.raised = "none"
             THEN ExecuteLoop(details, os, link_ids, i + 1,
                              reboot_required \/ r.value, TRUE, r.calls)
             ELSE IF r.raised = "NetworkDetailsError"
             THEN ExecuteLoop(details, os, link_ids, i + 1, reboot_required,
                              configured, r.calls)
             ELSE ExecOutcome(r.raised, FALSE, configured,
                              SubSeq(link_ids, 1, i), r.calls)

\* isinstance(self._network_details, service_base.NetworkDetails)
IsNetworkDetails(x) == x.t = "NetworkDetails"

\* execute returning instead of raising when the details are no
\* NetworkDetails
ExecuteWithoutTypeError(network_details, os, link_ids) ==
    IF ~PyTruthy(network_details)
    THEN ExecOutcome("none", FALSE, FALSE, <<>>, <<>>)
    ELSE IF ~IsNetworkDetails(network_details)
    THEN ExecOutcome("none", FALSE, FALSE, <<>>, <<>>)
    ELSE ExecuteLoop(network_details.v, os, link_ids, 1, FALSE, FALSE, <<>>)

\* NetworkConfigPlugin.execute, given what service.get_network_details()
\* returned and the order in which get_links() yields the link ids
execute(network_details, os, link_ids) ==
    IF ~PyTruthy(network_details)
    THEN ExecOutcome("none", FALSE, FALSE, <<>>, <<>>)
    ELSE IF ~IsNetworkDetails(network_details)
    THEN ExecOutcome("CloudbaseInitException", FALSE, FALSE, <<>>, <<>>)
    ELSE ExecuteLoop(network_details.v, os, link_ids, 1, FALSE, FALSE, <<>>)

----------------------------------------------------------------------------
(* Bounds and input domains *)

MaxAdapters == 2      \* host adapters enumerated
MaxRawLinks == 2      \* raw link records in the metadata
MaxRawNetworks == 2   \* raw network records in the metadata
MaxCalls == 2         \* get_network_details() calls on one builder
MaxRefs == 2          \* network ids assigned to one link

\* All sequences over S of length at most n
RECURSIVE SeqsUpTo(_, _)
SeqsUpTo(T, n) ==
    IF n = 0 THEN {<<>>}
    ELSE LET shorter == SeqsUpTo(T, n - 1)
         IN  shorter \cup {Append(q, x) : q \in shorter, x \in T}

\* All raw records over the keys of keys (a sequence), each key absent or
\* holding one of the strings choices[key]
RECURSIVE RawRecords(_, _)
RawRecords(keys, choices) ==
    IF keys = <<>> THEN {EmptyDict}
    ELSE LET rest == RawRecords(Tail(keys), choices)
         IN  rest \cup {DictSet(r, Head(keys), S(x)) :
                           r \in rest, x \in choices[Head(keys)]}

AdapterPairs == {<<"eth0", "hw0">>, <<"eth1", "hw1">>}
AdapterLists == SeqsUpTo(AdapterPairs, MaxAdapters)
\* The hosts the builder runs on: no adapter, eth0 only, eth1 then eth0
HostAdapterLists ==
    {<<>>, <<<<"eth0", "hw0">>>>, <<<<"eth1", "hw1">>, <<"eth0", "hw0">>>>}

LinkKeys == <<ID, NAME, MAC_ADDRESS, HTTP_MAC_ADDRESS, ALT_MAC_ADDRESS, TYPE>>
LinkChoices ==
    [k \in {ID, NAME, MAC_ADDRESS, HTTP_MAC_ADDRESS, ALT_MAC_ADDRESS, TYPE} |->
        CASE k = ID -> {"eth0"}
          [] k = NAME -> {"eth0", "eth1"}
          [] k = MAC_ADDRESS -> {"aa:01", ""}
          [] k = HTTP_MAC_ADDRESS -> {"aa:02"}
          [] k = ALT_MAC_ADDRESS -> {"aa:03"}
          [] k = TYPE -> {PHY}]
RawLinkRecords == RawRecords(LinkKeys, LinkChoices)

NetworkKeys == <<ID, IP_ADDRESS, NETMASK, GATEWAY, VERSION, HTTP_VERSION,
                 ASSIGNED_TO, HTTP_ASSIGNED_TO>>
NetworkChoices ==
    [k \in {ID, IP_ADDRESS, NETMASK, GATEWAY, VERSION, HTTP_VERSION,
            ASSIGNED_TO, HTTP_ASSIGNED_TO} |->
        CASE k = ID -> {"n0"}
          [] k = IP_ADDRESS -> {"10.0.0.5"}
          [] k = NETMASK -> {"255.255.255.0"}
          [] k = GATEWAY -> {"10.0.0.1"}
          [] k = VERSION -> {"6"}
          [] k = HTTP_VERSION -> {HTTP_IPV4}
          [] k = ASSIGNED_TO -> {"eth0"}
          [] k = HTTP_ASSIGNED_TO -> {"eth1"}]
RawNetworkRecords == RawRecords(NetworkKeys, NetworkChoices)

FieldSets ==
    {"link_base", "link_http", "link_listed", "network_base", "network_http"}

\* The field table a field set names, and the self._link of its builder
FieldTable(fs) ==
    CASE fs = "link_base" -> LinkFieldsBase
      [] fs = "link_http" -> LinkFieldsHttp
      [] fs = "link_listed" -> LinkFieldsListed
      [] fs = "network_base" -> NetworkFieldsBase
      [] fs = "network_http" -> NetworkFieldsHttp
LinkTable(fs) ==
    IF fs \in {"link_base", "network_base"} THEN LinkFieldsBase
    ELSE IF fs = "link_listed" THEN LinkFieldsListed
    ELSE LinkFieldsHttp
RawRecordsFor(fs) ==
    IF fs \in {"link_base", "link_http", "link_listed"} THEN RawLinkRecords
    ELSE RawNetworkRecords

\* Raw records of the metadata handed to the HTTP builder
MetaLink(id) ==
    [k \in {ID, HTTP_MAC_ADDRESS} |-> IF k = ID THEN S(id) ELSE S("aa:02")]
\* no key; no MAC; a MAC; a MAC key holding the empty string
MetaLinkRecords ==
    {EmptyDict, [k \in {ID} |-> S("eth0")], MetaLink("eth0"), MetaLink("eth1"),
     DictSet(MetaLink("eth0"), HTTP_MAC_ADDRESS, S(""))}
MetaNetworkBase ==
    [k \in {IP_ADDRESS, NETMASK, HTTP_VERSION} |->
        CASE k = IP_ADDRESS -> S("10.0.0.5")
          [] k = NETMASK -> S("255.255.255.0")
          [] k = HTTP_VERSION -> S(HTTP_IPV4)]
\* A network in address/prefix notation, with a gateway and no netmask key
MetaNetworkPrefixed ==
    [k \in {IP_ADDRESS, GATEWAY, HTTP_VERSION, HTTP_ASSIGNED_TO} |->
        CASE k = IP_ADDRESS -> S("10.0.0.5/24")
          [] k = GATEWAY -> S("10.0.0.1")
          [] k = HTTP_VERSION -> S(HTTP_IPV4)
          [] k = HTTP_ASSIGNED_TO -> S("eth1")]
MetaNetworkRecords ==
    {EmptyDict,
     MetaNetworkBase,
     DictSet(MetaNetworkBase, GATEWAY, S("10.0.0.1")),
     DictSet(DictSet(MetaNetworkBase, GATEWAY, S("10.0.0.1")),
             HTTP_ASSIGNED_TO, S("eth0")),
     MetaNetworkPrefixed}

\* network_data: a dict whose "links" and "networks" keys may be absent
NetworkDatas ==
    LET ls == SeqsUpTo(MetaLinkRecords, MaxRawLinks)
        ns == SeqsUpTo(MetaNetworkRecords, MaxRawNetworks)
    IN  {[k \in {HTTP_LINKS, HTTP_NETWORKS} |->
            IF k = HTTP_LINKS THEN l ELSE n] : l \in ls, n \in ns}
        \cup {[k \in {HTTP_LINKS} |-> l] : l \in ls}
        \cup {[k \in {HTTP_NETWORKS} |-> n] : n \in ns}

\* ---- what a service may hand to the plugin
LinkIds == {"eth0", "eth1"}
NetworkIds == {"n0", "n1"}
\* The types a link of each id takes (all three types occur)
LinkTypes(id) == IF id = "eth0" THEN {PHY, BOND} ELSE {PHY, VIF}

MkLink(id, type) ==
    LinkTuple([id |-> S(id), name |-> S(id), type |-> S(type),
               mac_address |-> S("mac-" \o id), mtu |-> NoneV,
               bond_links |-> NoneV, bond_mode |-> NoneV, vlan_id |-> NoneV,
               vlan_link |-> NoneV])

MkNetwork(id, version) ==
    NetworkTuple([id |-> S(id), ip_address |-> S("10.0.0.5"),
                  version |-> I(version), netmask |-> S("255.255.255.0"),
                  gateway |-> S("10.0.0.1"), broadcast |-> S("10.0.0.255"),
                  dns_nameservers |-> EmptyList, assigned_to |-> S("eth0")])

\* links: link id -> Link
LinkMaps ==
    UNION {{[k \in K |-> MkLink(k, ty[k])] :
               ty \in {f \in [K -> {PHY, BOND, VIF}] :
                          \A k \in K : f[k] \in LinkTypes(k)}} :
              K \in SUBSET LinkIds}
\* networks: network id -> Network
NetworkMaps ==
    UNION {{[k \in K |-> MkNetwork(k, ver[k])] : ver \in [K -> {IPV4, IPV6}]} :
              K \in SUBSET NetworkIds}
\* references: link id -> list of at most n network ids
ReferenceMaps(n) ==
    UNION {{[k \in K |-> List(refs[k])] :
               refs \in [K -> SeqsUpTo(NetworkIds, n)]} :
              K \in SUBSET LinkIds}

\* A NetworkDetails instance together with the three mappings (links,
\* networks, references) it was built from.  Built as
\* get_network_details builds it, each mapping under the parameter of its
\* name; or with each mapping under the parameter whose attribute the
\* accessor of that mapping reads.
DetailsFrom(links, networks, references, by_name) ==
    [t |-> "NetworkDetails",
     v |-> IF by_name
           THEN NetworkDetails(links, networks, references)
           ELSE NetworkDetails(references, links, networks),
     links |-> links, networks |-> networks, references |-> references,
     by_name |-> by_name]

ServiceValues ==
    {NoneV, EmptyList, S(""), S("details"), List(<<"eth0">>)} \cup
    {DetailsFrom(l, n, r, FALSE) :
        l \in LinkMaps, n \in NetworkMaps, r \in ReferenceMaps(MaxRefs)}
    \cup
    {DetailsFrom(l, n, r, TRUE) :
        l \in LinkMaps, n \in NetworkMaps, r \in ReferenceMaps(1)}

\* All orders in which the ids of a set can be yielded
RECURSIVE Orders(_)
Orders(ids) ==
    IF ids = {} THEN {<<>>}
    ELSE UNION {{<<x>> \o q : q \in Orders(ids \ {x})} : x \in ids}

----------------------------------------------------------------------------
(* The state machines *)

NotResolved == [called |-> FALSE, ret |-> ReturnNone]
NotCalled == [called |-> FALSE, digested |-> FALSE, raised |-> "none",
              returned |-> FALSE, details |-> NoDetails]
NotExecuted == [called |-> FALSE, raised |-> "none",
                reboot_required |-> FALSE, configured |-> FALSE,
                processed |-> <<>>, calls |-> <<>>]

IdleFields ==
    /\ fieldset = "link_http"
    /\ raw_record = EmptyDict
    /\ resolved = NotResolved
IdleBuilder ==
    /\ network_data = EmptyDict
    /\ links_buf = EmptyDict
    /\ networks_buf = EmptyDict
    /\ invalid_links = {}
    /\ py = 3
    /\ outcome = NotCalled
    /\ returned_details = <<>>
    /\ ncalls = 0
    /\ ndigest = 0
IdlePlugin ==
    /\ service_details = NoneV
    /\ os_behaviour = [n \in NetworkIds |-> "False"]
    /\ exec_outcome = NotExecuted
    /\ os_calls = <<>>

\* ---- the field resolver on one raw record
InitFields ==
    /\ fieldset \in FieldSets
    /\ raw_record \in RawRecordsFor(fieldset)
    /\ network_adapters \in AdapterLists
    /\ resolved = NotResolved
    /\ IdleBuilder
    /\ IdlePlugin

GetFields ==
    /\ ~resolved.called
    /\ resolved' = [called |-> TRUE,
                    ret |-> _get_fields(FieldTable(fieldset),
                                        LinkTable(fieldset), network_adapters,
                                        raw_record, Uuid(0))]
    /\ UNCHANGED <<fieldset, raw_record, network_adapters, builderVars,
                   pluginVars>>

NextFields == GetFields

SpecFields == InitFields /\ [][NextFields]_vars

\* ---- one HTTP builder, called repeatedly
Init ==
    /\ network_data \in NetworkDatas
    /\ network_adapters \in HostAdapterLists
    /\ py \in {2, 3}
    /\ links_buf = EmptyDict          \* self._links = {}
    /\ networks_buf = EmptyDict       \* self._networks = {}
    /\ invalid_links = {}             \* self._invalid_links = []
    /\ outcome = NotCalled
    /\ returned_details = <<>>
    /\ ncalls = 0
    /\ ndigest = 0
    /\ IdleFields
    /\ IdlePlugin

\* The builder after a call that did r
BuilderAfter(r) ==
    /\ links_buf' = r.state.links
    /\ networks_buf' = r.state.networks
    /\ invalid_links' = r.state.invalid
    /\ outcome' = [called |-> TRUE, digested |-> r.digested,
                   raised |-> r.raised, returned |-> r.returned,
                   details |-> r.details]
    \* the caller keeps each returned object; the later calls build new ones
    /\ returned_details' = IF r.returned
                           THEN Append(returned_details, r.details)
                           ELSE returned_details
    /\ ndigest' = ndigest + (IF r.digested THEN 1 ELSE 0)

GetNetworkDetails ==
    /\ ncalls < MaxCalls
    /\ BuilderAfter(get_network_details(
           network_data, network_adapters, py,
           BuilderState(links_buf, networks_buf, invalid_links, "none",
                        ncalls * (MaxRawLinks + MaxRawNetworks))))
    /\ ncalls' = ncalls + 1
    /\ UNCHANGED <<network_data, network_adapters, py, fieldVars, pluginVars>>

Next == GetNetworkDetails

Spec == Init /\ [][Next]_vars

\* ---- one execute call of the plugin
InitPlugin ==
    /\ service_details \in ServiceValues
    /\ os_behaviour \in [NetworkIds -> OsOutcomes]
    /\ exec_outcome = NotExecuted
    /\ os_calls = <<>>
    /\ network_adapters = <<>>
    /\ IdleFields
    /\ IdleBuilder

Execute ==
    /\ ~exec_outcome.called
    /\ \E link_ids \in (IF IsNetworkDetails(service_details)
                         THEN Orders(get_links(service_details.v))
                         ELSE {<<>>}) :
          LET r == execute(service_details, os_behaviour, link_ids)
          IN  /\ exec_outcome' = r
              /\ os_calls' = r.calls
    /\ UNCHANGED <<service_details, os_behaviour, network_adapters,
                   fieldVars, builderVars>>

NextPlugin == Execute

SpecPlugin == InitPlugin /\ [][NextPlugin]_vars

----------------------------------------------------------------------------
(* Facts about the HTTP builder *)

\* No call stores anything in the raw buffers: a link that resolves makes
\* _digest raise at link[VERSION] before it is stored, and nothing assigns
\* self._networks.
BuffersStayEmpty == links_buf = EmptyDict /\ networks_buf = EmptyDict

\* Every NetworkDetails a call returns holds three empty mappings.
ReturnedDetailsAreEmpty == outcome.returned => outcome.details = NoDetails

----------------------------------------------------------------------------
(* Claims *)

\* The ids a NetworkDetails knows under any of its three attributes
KnownIds(details) ==
    DOMAIN details._links \cup DOMAIN details._networks
        \cup DOMAIN details._assigned_to

\* C1: every link id of the NetworkDetails returned by
\* get_network_details() has a non-empty list of network ids assigned to
\* it in that NetworkDetails.
C1_LinksHaveNetworks ==
    outcome.returned =>
        \A link_id \in get_links(outcome.details) :
            /\ get_networks(outcome.details, link_id).t = "list"
            /\ get_networks(outcome.details, link_id).v # <<>>

\* C1: a get_network_details() call returned a NetworkDetails that holds
\* a link.
C1_Witness ==
    outcome.returned /\ get_links(outcome.details) # {}

\* Equality of two Python values (None when a key is absent)
SameValue(a, b) == a.t = b.t /\ a.v = b.v

\* C2: for a NetworkDetails built, as get_network_details builds it, from
\* the mappings links, networks and references: get_links() is the set of
\* keys of links, get_link(id) is links[id] or None, get_network(id) is
\* networks[id] or None, and get_networks(link_id) is references[link_id].
C2_AccessorsReadTheirMappings ==
    (IsNetworkDetails(service_details) /\ service_details.by_name) =>
        LET d == service_details.v
            ids == DOMAIN service_details.links
                       \cup DOMAIN service_details.networks
                       \cup DOMAIN service_details.references
        IN  /\ get_links(d) = DOMAIN service_details.links
            /\ \A id \in ids :
                   /\ SameValue(get_link(d, id),
                                DictGet(service_details.links, id))
                   /\ SameValue(get_network(d, id),
                                DictGet(service_details.networks, id))
                   /\ SameValue(get_networks(d, id),
                                DictGet(service_details.references, id))

\* The snapshot reads back as a topology: every link id yields a Link with
\* a list of network ids, each of which yields a Network.
ReadsAsTopology(d) ==
    \A id \in get_links(d) :
        /\ get_link(d, id).t = "Link"
        /\ get_networks(d, id).t = "list"
        /\ \A k \in 1..Len(get_networks(d, id).v) :
               get_network(d, get_networks(d, id).v[k]).t = "Network"

\* Configuring the link fails: its type is not phy, or the OS primitive
\* raises for one of its networks
LinkFails(d, os, id) ==
    \/ get_link(d, id).v.type # S(PHY)
    \/ \E k \in 1..Len(get_networks(d, id).v) :
          os[get_networks(d, id).v[k]] \notin {"True", "False"}

\* C3: when configuring one link fails (unsupported type, or the OS
\* primitive raises any exception for that link), execute does not raise,
\* every link of the snapshot is processed, and execute returns a verdict.
C3_LinkFailureIsIsolated ==
    (/\ exec_outcome.called
     /\ IsNetworkDetails(service_details)
     /\ ReadsAsTopology(service_details.v)
     /\ \E id \in get_links(service_details.v) :
            LinkFails(service_details.v, os_behaviour, id))
    => /\ exec_outcome.raised = "none"
       /\ {exec_outcome.processed[i] : i \in 1..Len(exec_outcome.processed)}
              = get_links(service_details.v)

\* The required fields of fields that raw holds under no alias
MissingRequired(fields, raw) ==
    {i \in 1..Len(fields) :
        /\ fields[i].required
        /\ \A j \in 1..Len(Aliases(fields[i])) :
               Aliases(fields[i])[j] \notin DOMAIN raw}

\* The field has no on_error hook, or its hook returns a false value
Unrecovered(field) ==
    \/ field.on_error = NoHook
    \/ ~RunHook(field, LinkTable(fieldset), network_adapters, raw_record,
                EmptyDict, Uuid(0)).ret

\* C4: if a required field is absent from the raw record under its name
\* and every alias, and the field has no on_error hook or its hook returns
\* a false value, _get_fields returns None for the record: no partial
\* record, no error raised to the caller.
C4_RecordRejected ==
    (/\ resolved.called
     /\ \E i \in MissingRequired(FieldTable(fieldset), raw_record) :
            Unrecovered(FieldTable(fieldset)[i]))
    => resolved.ret = ReturnNone

\* C4: a network record that lacks only the gateway, a required field with
\* no hook, was resolved and rejected.
C4_Witness ==
    /\ resolved.called
    /\ fieldset = "network_http"
    /\ DOMAIN raw_record =
           {IP_ADDRESS, NETMASK, HTTP_VERSION, HTTP_ASSIGNED_TO}
    /\ resolved.ret.none

\* The value the raw record holds for the link name, under the name field's
\* first alias present
NameAliasesPresent ==
    LET a == Aliases(FieldByName(LinkTable(fieldset), NAME))
    IN  {a[i] : i \in {j \in 1..Len(a) : a[j] \in DOMAIN raw_record}}
ResolvedName ==
    LET a == Aliases(FieldByName(LinkTable(fieldset), NAME))
        first == CHOOSE i \in 1..Len(a) :
                    /\ a[i] \in DOMAIN raw_record
                    /\ \A j \in 1..(i - 1) : a[j] \notin DOMAIN raw_record
    IN  raw_record[a[first]]
\* The adapters whose name is the link's resolved name
MatchingAdapters ==
    {i \in 1..Len(network_adapters) :
        SameValue(S(network_adapters[i][1]), ResolvedName)}

\* C5: when a raw link record has no MAC address under the name or any
\* alias, and its name resolves and equals the name of a host adapter, the
\* resolved record holds that adapter's mac under mac_address; when the
\* name does not resolve or no adapter has that name, the record is dropped.
C5_MacRecovered ==
    (/\ resolved.called
     /\ fieldset \in {"link_base", "link_http"}
     /\ MAC_ADDRESS \notin DOMAIN raw_record
     /\ HTTP_MAC_ADDRESS \notin DOMAIN raw_record
     /\ ALT_MAC_ADDRESS \notin DOMAIN raw_record)
    => IF NameAliasesPresent # {} /\ MatchingAdapters # {}
       THEN /\ ~resolved.ret.none
            /\ MAC_ADDRESS \in DOMAIN resolved.ret.data
            /\ LET first == CHOOSE i \in MatchingAdapters :
                                \A j \in MatchingAdapters : i <= j
               IN  resolved.ret.data[MAC_ADDRESS] =
                       S(network_adapters[first][2])
       ELSE resolved.ret.none

\* C6: once a call has left a raw buffer non-empty, no later call invokes
\* _digest(); _digest() is invoked only when the raw buffers are empty.
C6_PopulateOnce ==
    [][/\ (links_buf # EmptyDict \/ networks_buf # EmptyDict)
           => ndigest' = ndigest
       /\ ndigest' # ndigest
           => (links_buf = EmptyDict /\ networks_buf = EmptyDict)]_vars

\* C6: a call was made on a builder whose earlier call had left a raw
\* buffer non-empty.
C6_Witness ==
    ncalls >= 1 /\ (links_buf # EmptyDict \/ networks_buf # EmptyDict)

\* Every raw record of the metadata resolves, and there is one
AllRecordsResolve ==
    /\ DOMAIN network_data = {HTTP_LINKS, HTTP_NETWORKS}
    /\ Len(network_data[HTTP_LINKS]) + Len(network_data[HTTP_NETWORKS]) > 0
    /\ \A i \in 1..Len(network_data[HTTP_LINKS]) :
           Truthy(_get_fields(LinkFieldsHttp, LinkFieldsHttp,
                              network_adapters, network_data[HTTP_LINKS][i],
                              Uuid(0)))
    /\ \A i \in 1..Len(network_data[HTTP_NETWORKS]) :
           Truthy(_get_fields(NetworkFieldsHttp, LinkFieldsHttp,
                              network_adapters,
                              network_data[HTTP_NETWORKS][i], Uuid(0)))

\* C7: raw records in which every field resolves are assembled and do not
\* abort the digest: get_network_details() returns a NetworkDetails.
C7_ResolvedRecordsDoNotAbort ==
    (outcome.called /\ AllRecordsResolve) => outcome.returned

\* The link was configured without error: a phy link, the OS primitive
\* returned for each network assigned to it
LinkConfigured(d, os, id) ==
    /\ get_link(d, id).t = "Link"
    /\ get_link(d, id).v.type = S(PHY)
    /\ get_networks(d, id).t = "list"
    /\ \A k \in 1..Len(get_networks(d, id).v) :
           /\ get_network(d, get_networks(d, id).v[k]).t = "Network"
           /\ os[get_networks(d, id).v[k]] \in {"True", "False"}

\* An IPv4 configure call for a network of the link returned true
V4CallReturnedTrue(d, os, id) ==
    /\ get_networks(d, id).t = "list"
    /\ \E k \in 1..Len(get_networks(d, id).v) :
           LET network == get_network(d, get_networks(d, id).v[k])
           IN  /\ network.t = "Network"
               /\ network.v.version = I(IPV4)
               /\ os[get_networks(d, id).v[k]] = "True"

\* C8: the reboot_required execute returns is true if and only if a link
\* configured without error had an IPv4 configure call that returned true;
\* failed links and IPv6 calls contribute nothing.
C8_RebootIsOrOverConfigured ==
    (exec_outcome.called /\ exec_outcome.raised = "none") =>
        (exec_outcome.reboot_required <=>
            /\ IsNetworkDetails(service_details)
            /\ \E id \in get_links(service_details.v) :
                   /\ LinkConfigured(service_details.v, os_behaviour, id)
                   /\ V4CallReturnedTrue(service_details.v, os_behaviour, id))

\* C8: execute returned true although one link failed after an IPv4 call
\* of its own had returned true.
C8_Witness ==
    /\ exec_outcome.called
    /\ exec_outcome.raised = "none"
    /\ exec_outcome.reboot_required
    /\ IsNetworkDetails(service_details)
    /\ \E id \in get_links(service_details.v) :
           /\ ~LinkConfigured(service_details.v, os_behaviour, id)
           /\ V4CallReturnedTrue(service_details.v, os_behaviour, id)

\* C9, as amended: when the service supplies a false value (None, an empty
\* list, an empty string), execute returns reboot_required = false,
\* invokes no OS primitive and does not raise; when it supplies a true
\* value that is no NetworkDetails, execute raises CloudbaseInitException
\* and invokes no OS primitive.
C9_FalseOrRejected ==
    exec_outcome.called =>
        /\ ~PyTruthy(service_details) =>
               /\ exec_outcome.raised = "none"
               /\ ~exec_outcome.reboot_required
               /\ os_calls = <<>>
        /\ (PyTruthy(service_details) /\ ~IsNetworkDetails(service_details))
               => /\ exec_outcome.raised = "CloudbaseInitException"
                  /\ os_calls = <<>>

\* C9, as amended: an empty list, present but false, was taken as absent.
C9_Witness ==
    /\ exec_outcome.called
    /\ service_details.t = "list"
    /\ exec_outcome.raised = "none"
    /\ ~exec_outcome.reboot_required

\* C9: when the service supplies None, execute returns reboot_required =
\* false and invokes no OS primitive; when it supplies any value that is
\* not None and is no NetworkDetails, execute raises and invokes no OS
\* primitive.
C9_AbsentOrRejected ==
    exec_outcome.called =>
        /\ service_details.t = "none" =>
               /\ exec_outcome.raised = "none"
               /\ ~exec_outcome.reboot_required
               /\ os_calls = <<>>
        /\ (service_details.t # "none"
                /\ ~IsNetworkDetails(service_details))
               => /\ exec_outcome.raised # "none"
                  /\ os_calls = <<>>

\* C10: for every Network of the NetworkDetails returned by
\* get_network_details(), assigned_to is the id of a Link of the same
\* NetworkDetails.
C10_NetworksReferToLinks ==
    outcome.returned =>
        \A id \in KnownIds(outcome.details) :
            get_network(outcome.details, id).t = "Network" =>
                /\ get_network(outcome.details, id).v.assigned_to.t = "str"
                /\ get_network(outcome.details, id).v.assigned_to.v
                       \in get_links(outcome.details)

\* C10: a get_network_details() call returned a NetworkDetails that holds
\* a network.
C10_Witness ==
    /\ outcome.returned
    /\ \E id \in KnownIds(outcome.details) :
           get_network(outcome.details, id).t = "Network"

\* The aliases of a field in declaration order, its own name excluded
DeclaredAliases(field) ==
    IF field.alias.t = "str" THEN <<field.alias.v>>
    ELSE IF field.alias.t \in {"list", "tuple"} THEN field.alias.v
    ELSE <<>>

\* Some key of the field, its name or an alias, is in the record
HasKey(field, raw) ==
    \/ field.name \in DOMAIN raw
    \/ \E j \in 1..Len(DeclaredAliases(field)) :
          DeclaredAliases(field)[j] \in DOMAIN raw

\* The value under the field's name if that key is present, otherwise the
\* value under the first alias present
ValueByPrecedence(field, raw) ==
    IF field.name \in DOMAIN raw THEN raw[field.name]
    ELSE LET a == DeclaredAliases(field)
             first == CHOOSE j \in 1..Len(a) :
                         /\ a[j] \in DOMAIN raw
                         /\ \A k \in 1..(j - 1) : a[k] \notin DOMAIN raw
         IN  raw[a[first]]

\* C12: for every field and raw record that holds the field under some
\* key, _get_field returns the field's own name together with the value
\* under that name if the key is present, otherwise the value under the
\* first alias, in declaration order, that is present; a record that
\* _get_fields resolved holds these values under the fields' own names.
C12_AliasPrecedence ==
    \A i \in 1..Len(FieldTable(fieldset)) :
        LET field == FieldTable(fieldset)[i]
        IN  HasKey(field, raw_record) =>
               /\ _get_field(field, raw_record, Uuid(0)) =
                      [raised |-> FALSE,
                       ret |-> Tuple2(field.name,
                                      ValueByPrecedence(field, raw_record))]
               /\ (resolved.called /\ ~resolved.ret.none) =>
                      /\ field.name \in DOMAIN resolved.ret.data
                      /\ resolved.ret.data[field.name] =
                             ValueByPrecedence(field, raw_record)

\* C12: a link record holding different values under two aliases was
\* resolved to the value under mac_address when it holds that key too, and
\* to the value under the first alias otherwise.
C12_Witness ==
    /\ resolved.called
    /\ ~resolved.ret.none
    /\ fieldset = "link_listed"
    /\ HTTP_MAC_ADDRESS \in DOMAIN raw_record
    /\ ALT_MAC_ADDRESS \in DOMAIN raw_record
    /\ raw_record[HTTP_MAC_ADDRESS] # raw_record[ALT_MAC_ADDRESS]
    /\ IF MAC_ADDRESS \in DOMAIN raw_record
       THEN /\ raw_record[MAC_ADDRESS] # raw_record[HTTP_MAC_ADDRESS]
            /\ resolved.ret.data[MAC_ADDRESS] = raw_record[MAC_ADDRESS]
       ELSE resolved.ret.data[MAC_ADDRESS] = raw_record[HTTP_MAC_ADDRESS]

\* What get_link yields for the id is a Link of type phy / of another type
PhyLink(d, id) ==
    get_link(d, id).t = "Link" /\ get_link(d, id).v.type = S(PHY)
OtherTypeLink(d, id) ==
    get_link(d, id).t = "Link" /\ get_link(d, id).v.type # S(PHY)

\* C13: execute invokes an OS primitive for a link only if the link's type
\* is phy; for a link of another type (bond, vif) no primitive is invoked,
\* the link does not count as configured, and its error stays local:
\* execute does not raise because of it and goes on to the other links.
C13_OnlyPhyDispatched ==
    (exec_outcome.called /\ IsNetworkDetails(service_details)) =>
        LET d == service_details.v
            processed == exec_outcome.processed
        IN  /\ \A c \in 1..Len(os_calls) :
                   \E id \in get_links(d) :
                       /\ PhyLink(d, id)
                       /\ os_calls[c].mac_address = get_link(d, id).v.mac_address
            /\ \A id \in get_links(d) :
                   OtherTypeLink(d, id) =>
                       \A c \in 1..Len(os_calls) :
                           os_calls[c].mac_address
                               # get_link(d, id).v.mac_address
            /\ exec_outcome.configured <=>
                   \E i \in 1..Len(processed) :
                       LinkConfigured(d, os_behaviour, processed[i])
            /\ exec_outcome.raised # "none" =>
                   ~OtherTypeLink(d, processed[Len(processed)])
            /\ exec_outcome.raised = "none" =>
                   {processed[i] : i \in 1..Len(processed)} = get_links(d)

\* C13: execute met a link of another type that has a network assigned,
\* invoked nothing for it, went on to a phy link, configured that one and
\* returned.
C13_Witness ==
    /\ exec_outcome.called
    /\ IsNetworkDetails(service_details)
    /\ exec_outcome.raised = "none"
    /\ exec_outcome.configured
    /\ Len(exec_outcome.processed) = 2
    /\ OtherTypeLink(service_details.v, exec_outcome.processed[1])
    /\ get_networks(service_details.v, exec_outcome.processed[1]).t = "list"
    /\ get_networks(service_details.v, exec_outcome.processed[1]).v # <<>>
    /\ PhyLink(service_details.v, exec_outcome.processed[2])
    /\ os_calls # <<>>

\* The metadata holds two links and one network: the first link has a MAC;
\* the second has none and no host adapter bears its name; the network is
\* assigned to the first link, its address in address/prefix notation,
\* with a gateway and no netmask key.
EndToEndScenario ==
    /\ DOMAIN network_data = {HTTP_LINKS, HTTP_NETWORKS}
    /\ Len(network_data[HTTP_LINKS]) = 2
    /\ Len(network_data[HTTP_NETWORKS]) = 1
    /\ LET first == network_data[HTTP_LINKS][1]
           second == network_data[HTTP_LINKS][2]
       IN  /\ DOMAIN first = {ID, HTTP_MAC_ADDRESS}
           /\ first[HTTP_MAC_ADDRESS] # S("")
           /\ DOMAIN second = {ID}
           /\ second[ID] # first[ID]
           /\ \A i \in 1..Len(network_adapters) :
                  S(network_adapters[i][1]) # second[ID]
           /\ network_data[HTTP_NETWORKS][1] =
                  DictSet(MetaNetworkPrefixed, HTTP_ASSIGNED_TO, first[ID])

\* C14: on that metadata get_network_details() does not fail and returns
\* a NetworkDetails whose link set is exactly the first link: the network
\* is accepted and the second link is excluded.
C14_EndToEndDigest ==
    (outcome.called /\ EndToEndScenario) =>
        /\ outcome.returned
        /\ get_links(outcome.details) = {network_data[HTTP_LINKS][1][ID].v}

\* A link record whose MAC key holds the empty string resolves, with the
\* empty string as its mac_address: _get_field returns whatever the key
\* holds.
ResolvedWithEmptyMac ==
    /\ resolved.called
    /\ fieldset = "link_http"
    /\ ~resolved.ret.none
    /\ resolved.ret.data[MAC_ADDRESS] = S("")

\* C11: every Link of the NetworkDetails returned by get_network_details()
\* has a non-empty mac_address, whatever the raw link records hold under
\* the MAC key.
C11_LinksHaveMac ==
    outcome.returned =>
        \A id \in KnownIds(outcome.details) :
            get_link(outcome.details, id).t = "Link" =>
                /\ get_link(outcome.details, id).v.mac_address # NoneV
                /\ get_link(outcome.details, id).v.mac_address # S("")

\* C11: a get_network_details() call returned a NetworkDetails that holds
\* a Link.
C11_Witness ==
    /\ outcome.returned
    /\ \E id \in KnownIds(outcome.details) :
           get_link(outcome.details, id).t = "Link"

\* A network record of the HTTP metadata resolves with the raw string of
\* its "type" key as version: nothing turns it into 4 or 6 (_digest does
\* that to link records only).
ResolvedWithRawVersion ==
    /\ resolved.called
    /\ fieldset = "network_http"
    /\ ~resolved.ret.none
    /\ resolved.ret.data[VERSION] = S(HTTP_IPV4)

\* The OS calls execute made for the link, in order
CallsFor(d, id) ==
    LET ForLink(c) == c.mac_address = get_link(d, id).v.mac_address
    IN  SelectSeq(os_calls, ForLink)

\* For every link execute configured without error, one OS primitive was
\* invoked per network assigned to it, in order: the IPv4 primitive if the
\* network's version is 4 and the IPv6 primitive otherwise.
DispatchFollowsVersion ==
    (exec_outcome.called /\ IsNetworkDetails(service_details)) =>
        \A i \in 1..Len(exec_outcome.processed) :
            LET d == service_details.v
                id == exec_outcome.processed[i]
            IN  LinkConfigured(d, os_behaviour, id) =>
                   /\ Len(CallsFor(d, id)) = Len(get_networks(d, id).v)
                   /\ \A k \in 1..Len(get_networks(d, id).v) :
                          LET network == get_network(d, get_networks(d, id).v[k])
                          IN  /\ CallsFor(d, id)[k].network_id = network.v.id
                              /\ CallsFor(d, id)[k].primitive =
                                     IF network.v.version = I(IPV4)
                                     THEN "set_static_network_config"
                                     ELSE "set_static_network_config_v6"

\* C15: every network assigned to a phy link in a NetworkDetails returned
\* by get_network_details() has version 4 or 6, so that the plugin invokes
\* for it the IPv4 primitive if and only if it is an IPv4 network and the
\* IPv6 primitive if and only if it is an IPv6 network.
C15_VersionsAreFourOrSix ==
    outcome.returned =>
        \A id \in get_links(outcome.details) :
            (PhyLink(outcome.details, id)
                /\ get_networks(outcome.details, id).t = "list") =>
                \A k \in 1..Len(get_networks(outcome.details, id).v) :
                    LET network == get_network(outcome.details,
                                       get_networks(outcome.details, id).v[k])
                    IN  /\ network.t = "Network"
                        /\ network.v.version \in {I(IPV4), I(IPV6)}

\* C15: a get_network_details() call returned a NetworkDetails in which a
\* phy link has a network assigned.
C15_Witness ==
    /\ outcome.returned
    /\ \E id \in get_links(outcome.details) :
           /\ PhyLink(outcome.details, id)
           /\ get_networks(outcome.details, id).t = "list"
           /\ get_networks(outcome.details, id).v # <<>>

====
